---- MODULE Spec2Model ----
(***************************************************************************)
(* Model of src/src/Dashboard.js: the Dashboard component loads a CSV     *)
(* through Papa.parse, cleans the rows into `data`, and on every render   *)
(* of the loaded dashboard recomputes eight reports from `data`.          *)
(*                                                                         *)
(* JavaScript values are tagged records.  A string is its text `s` plus   *)
(* the number of white-space characters before (`lead`) and after         *)
(* (`trail`) it; the text itself never starts or ends with white space.   *)
(***************************************************************************)
EXTENDS Integers, Sequences, FiniteSets, TLC

VARIABLES result, data, loading, error, dirty, view

vars == <<result, data, loading, error, dirty, view>>

-----------------------------------------------------------------------------
(* JavaScript values                                                       *)

Padded(l, s, r) == [t |-> "string", s |-> s, lead |-> l, trail |-> r, n |-> 0]
Str(s) == Padded(0, s, 0)
Num(n) == [t |-> "number", s |-> "", lead |-> 0, trail |-> 0, n |-> n]
JSTrue == [t |-> "boolean", s |-> "", lead |-> 0, trail |-> 0, n |-> 1]
JSFalse == [t |-> "boolean", s |-> "", lead |-> 0, trail |-> 0, n |-> 0]
Null == [t |-> "null", s |-> "", lead |-> 0, trail |-> 0, n |-> 0]
Undefined == [t |-> "undefined", s |-> "", lead |-> 0, trail |-> 0, n |-> 0]

\* String.prototype.length
Length(v) == v.lead + Len(v.s) + v.trail

\* ToBoolean: the falsy values are undefined, null, false, 0 and ''.
ToBoolean(v) ==
    CASE v.t = "string" -> Length(v) > 0
      [] v.t = "number" -> v.n # 0
      [] v.t = "boolean" -> v.n = 1
      [] OTHER -> FALSE

\* String.prototype.trim; a string of white space only trims to ''.
Trim(v) == Str(v.s)

\* ToPropertyKey: the string under which a value indexes an object.
ToPropertyKey(v) ==
    CASE v.t = "string" -> v
      [] v.t = "number" -> Str(ToString(v.n))
      [] v.t = "boolean" -> Str(IF v.n = 1 THEN "true" ELSE "false")
      [] v.t = "null" -> Str("null")
      [] OTHER -> Str("undefined")

\* Largest integer the model recognises as an integer-like property key.
MaxIndexKey == 12

\* Number.prototype.toString of the integers the model recognises.
IndexKeys == [i \in 0..MaxIndexKey |-> ToString(i)]

\* A canonical numeric string is an "array index" key of an object.
IsIndexKey(k) ==
    k.lead = 0 /\ k.trail = 0 /\ \E i \in 0..MaxIndexKey : IndexKeys[i] = k.s

\* parseInt of an integer-like key.
ParseInt(k) == CHOOSE i \in 0..MaxIndexKey : IndexKeys[i] = k.s

-----------------------------------------------------------------------------
(* Sequences, arrays and plain objects                                     *)

Range(seq) == {seq[i] : i \in 1..Len(seq)}

\* Array.prototype.sort with the comparator (a, b) => key(a) - key(b),
\* key[i] being the number compared for seq[i]: a stable sort.  Element i
\* lands after every element of smaller key and after every earlier element
\* of the same key.
StableSort(seq, key) ==
    LET n == Len(seq)
        rank(i) == 1 + Cardinality({j \in 1..n :
                        key[j] < key[i] \/ (j < i /\ key[j] = key[i])})
    IN [p \in 1..n |-> seq[CHOOSE i \in 1..n : rank(i) = p]]

\* A plain object {}: its own keys in creation order and their values.
EmptyObject == [order |-> <<>>, val |-> <<>>]

Has(o, k) == \E i \in 1..Len(o.order) : o.order[i] = k

Slot(o, k) == CHOOSE i \in 1..Len(o.order) : o.order[i] = k

Get(o, k) == o.val[Slot(o, k)]

\* o[k] = x
Put(o, k, x) ==
    IF Has(o, k) THEN [o EXCEPT !.val[Slot(o, k)] = x]
    ELSE [order |-> Append(o.order, k), val |-> Append(o.val, x)]

\* o[k] = (o[k] || 0) + 1
Increment(o, k) == Put(o, k, IF Has(o, k) THEN Get(o, k) + 1 ELSE 1)

\* Object.keys: integer-like keys in ascending numeric order, then the
\* other keys in creation order.
ObjectKeys(o) ==
    LET notIndexKey(k) == ~IsIndexKey(k)
        indexKeys == SelectSeq(o.order, IsIndexKey)
    IN StableSort(indexKeys, [i \in 1..Len(indexKeys) |-> ParseInt(indexKeys[i])])
           \o SelectSeq(o.order, notIndexKey)

\* Object.values
ObjectValues(o) == LET ks == ObjectKeys(o) IN [i \in 1..Len(ks) |-> Get(o, ks[i])]

RECURSIVE Sum(_)
Sum(seq) == IF seq = <<>> THEN 0 ELSE Head(seq) + Sum(Tail(seq))

\* A Set: its members in insertion order.
SetAdd(set, x) == IF x \in Range(set) THEN set ELSE Append(set, x)

-----------------------------------------------------------------------------
(* Numbers for display                                                     *)

RECURSIVE Pow10(_)
Pow10(d) == IF d = 0 THEN 1 ELSE 10 * Pow10(d - 1)

\* (num / den).toFixed(digits) for num, den >= 0: the text "NaN" for 0/0,
\* "Infinity" for a positive number over 0, and otherwise the decimal number
\* with `digits` decimals nearest to the quotient (the larger of two equally
\* near), kept as that number times 10^digits.
ToFixed(num, den, digits) ==
    IF den = 0
    THEN [text |-> IF num = 0 THEN "NaN" ELSE "Infinity", scaled |-> 0, digits |-> digits]
    ELSE [text |-> "number",
          scaled |-> (2 * num * Pow10(digits) + den) \div (2 * den),
          digits |-> digits]

-----------------------------------------------------------------------------
(* Loading: the `complete` callback of Papa.parse                          *)

\* item.f.trim() raises a TypeError when f is truthy and not a string.
CleanThrows(item) ==
    \/ ToBoolean(item.question_complexity) /\ item.question_complexity.t # "string"
    \/ ToBoolean(item.learning_path) /\ item.learning_path.t # "string"

\* The cleaning step without the trim of learning_path.
CleanItemUntrimmedPath(item) ==
    [item EXCEPT
        !.question_complexity =
            IF ToBoolean(item.question_complexity)
            THEN Trim(item.question_complexity) ELSE Str("unknown"),
        !.learning_path =
            IF ToBoolean(item.learning_path)
            THEN item.learning_path ELSE Str("none"),
        !.user_intent =
            IF ToBoolean(item.user_intent) THEN item.user_intent ELSE Str("unknown")]

CleanItem(item) ==
    [item EXCEPT
        !.question_complexity =
            IF ToBoolean(item.question_complexity)
            THEN Trim(item.question_complexity) ELSE Str("unknown"),
        !.learning_path =
            IF ToBoolean(item.learning_path)
            THEN Trim(item.learning_path) ELSE Str("none"),
        !.user_intent =
            IF ToBoolean(item.user_intent) THEN item.user_intent ELSE Str("unknown")]

cleanedData(rows) == [i \in 1..Len(rows) |-> CleanItem(rows[i])]

-----------------------------------------------------------------------------
(* 1. Session Analysis                                                     *)

\* The forEach body with an assignment for the push: a session keeps only
\* its latest record.
AddToSessionOverwriting(sessionQuestions, item) ==
    Put(sessionQuestions, ToPropertyKey(item.session_id), <<item>>)

\* if (!sessionQuestions[id]) sessionQuestions[id] = [];
\* sessionQuestions[id].push(item)
AddToSession(sessionQuestions, item) ==
    LET k == ToPropertyKey(item.session_id)
    IN Put(sessionQuestions, k,
           Append(IF Has(sessionQuestions, k) THEN Get(sessionQuestions, k) ELSE <<>>,
                  item))

\* sessionQuestions: the records of each session_id key, in input order.
RECURSIVE GroupBySession(_)
GroupBySession(d) ==
    IF d = <<>> THEN EmptyObject
    ELSE AddToSession(GroupBySession(SubSeq(d, 1, Len(d) - 1)), d[Len(d)])

QuestionsPerSession(sessionQuestions) ==
    LET ks == ObjectKeys(sessionQuestions)
    IN [i \in 1..Len(ks) |-> [id |-> ks[i], count |-> Len(Get(sessionQuestions, ks[i]))]]

RECURSIVE Distribution(_)
Distribution(qps) ==
    IF qps = <<>> THEN EmptyObject
    ELSE Increment(Distribution(SubSeq(qps, 1, Len(qps) - 1)),
                   ToPropertyKey(Num(qps[Len(qps)].count)))

DistributionData(distribution) ==
    LET ks == ObjectKeys(distribution)
        rows == [i \in 1..Len(ks) |->
                    [questions |-> ParseInt(ks[i]), sessions |-> Get(distribution, ks[i])]]
    IN StableSort(rows, [i \in 1..Len(rows) |-> rows[i].questions])

\* The counts left in the order of questionsPerSession.
UnsortedCounts(qps) == [i \in 1..Len(qps) |-> qps[i].count]

SortedCounts(qps) ==
    LET counts == [i \in 1..Len(qps) |-> qps[i].count]
    IN StableSort(counts, counts)

\* The median as displayed; an index outside sortedCounts reads undefined,
\* and undefined in the sum makes it NaN.
MedianQuestionsPerSession(sortedCounts) ==
    LET n == Len(sortedCounts)
        middle == n \div 2
        at(i) == sortedCounts[i + 1]
        inside(i) == i >= 0 /\ i < n
    IN IF n % 2 = 0
       THEN IF inside(middle - 1) /\ inside(middle)
            THEN ToFixed(at(middle - 1) + at(middle), 2, 2)
            ELSE ToFixed(0, 0, 2)
       ELSE ToFixed(at(middle), 1, 2)

processSessionData(d) ==
    LET sessionQuestions == GroupBySession(d)
        questionsPerSession == QuestionsPerSession(sessionQuestions)
    IN [sessionsCount |-> Len(ObjectKeys(sessionQuestions)),
        questionsPerSession |-> questionsPerSession,
        distributionData |-> DistributionData(Distribution(questionsPerSession)),
        medianQuestionsPerSession |->
            MedianQuestionsPerSession(SortedCounts(questionsPerSession))]

-----------------------------------------------------------------------------
(* 2. Intent Analysis, 3. Business Maturity Analysis                       *)

\* x || 'unknown'
OrUnknown(v) == IF ToBoolean(v) THEN v ELSE Str("unknown")

\* counts[label] = (counts[label] || 0) + 1 over the labels, in order.
RECURSIVE CountLabels(_)
CountLabels(labels) ==
    IF labels = <<>> THEN EmptyObject
    ELSE Increment(CountLabels(SubSeq(labels, 1, Len(labels) - 1)),
                   ToPropertyKey(labels[Len(labels)]))

\* sort((a, b) => a.value - b.value)
ByValueAscending(entries) ==
    StableSort(entries, [i \in 1..Len(entries) |-> entries[i].value])

\* sort((a, b) => b.value - a.value)
ByValueDescending(entries) ==
    StableSort(entries, [i \in 1..Len(entries) |-> 0 - entries[i].value])

\* One {name, value, percentage} entry per key, percentage of `total`.
CountEntries(counts, total) ==
    LET ks == ObjectKeys(counts)
    IN [i \in 1..Len(ks) |->
           [name |-> ks[i],
            value |-> Get(counts, ks[i]),
            percentage |-> ToFixed(Get(counts, ks[i]) * 100, total, 1)]]

processIntentData(d) ==
    LET counts == CountLabels([i \in 1..Len(d) |-> OrUnknown(d[i].user_intent)])
    IN ByValueDescending(CountEntries(counts, Len(d)))

processMaturityData(d) ==
    LET counts == CountLabels([i \in 1..Len(d) |-> OrUnknown(d[i].question_complexity)])
    IN ByValueDescending(CountEntries(counts, Len(d)))

-----------------------------------------------------------------------------
(* 4. Learning Path Analysis                                               *)

\* path !== 'none' && path !== 'null'
IsRealPath(path) == path # Str("none") /\ path # Str("null")

\* item.learning_path ?? 'none': only null and undefined become 'none'.
PathOrNoneIfNullish(item) ==
    IF item.learning_path.t \in {"null", "undefined"}
    THEN Str("none") ELSE item.learning_path

\* item.learning_path || 'none'
PathOrNone(item) ==
    IF ToBoolean(item.learning_path) THEN item.learning_path ELSE Str("none")

LearningPathCounts(d) ==
    LET isReal(item) == IsRealPath(PathOrNone(item))
        kept == SelectSeq(d, isReal)
    IN CountLabels([i \in 1..Len(kept) |-> PathOrNone(kept[i])])

\* The denominator of the other distributions: every record.
totalOfAllRecords(d) == Len(d)

\* Object.values(counts).reduce((sum, count) => sum + count, 0)
totalNonNull(d) == Sum(ObjectValues(LearningPathCounts(d)))

processLearningPathData(d) ==
    ByValueDescending(CountEntries(LearningPathCounts(d), totalNonNull(d)))

-----------------------------------------------------------------------------
(* 5. Learning Path vs Intent Data                                         *)

\* item.learning_path ? item.learning_path.trim() : 'none'
TrimmedPathOrNone(item) ==
    IF ToBoolean(item.learning_path) THEN Trim(item.learning_path) ELSE Str("none")

\* validPaths: the real paths in the order of their first record.
RECURSIVE ValidPaths(_)
ValidPaths(d) ==
    IF d = <<>> THEN <<>>
    ELSE LET acc == ValidPaths(SubSeq(d, 1, Len(d) - 1))
             path == TrimmedPathOrNone(d[Len(d)])
         IN IF IsRealPath(path) THEN SetAdd(acc, path) ELSE acc

\* pathIntents[path]: the intent counts of the records of one path.
IntentCounts(d, path) ==
    LET onPath(item) == TrimmedPathOrNone(item) = path
        kept == SelectSeq(d, onPath)
    IN CountLabels([i \in 1..Len(kept) |-> OrUnknown(kept[i].user_intent)])

\* keys.reduce((a, b) => intentCounts[a] > intentCounts[b] ? a : b)
RECURSIVE ReduceDominant(_, _)
ReduceDominant(intentCounts, keys) ==
    IF Len(keys) = 1 THEN keys[1]
    ELSE LET a == ReduceDominant(intentCounts, SubSeq(keys, 1, Len(keys) - 1))
             b == keys[Len(keys)]
         IN IF Get(intentCounts, a) > Get(intentCounts, b) THEN a ELSE b

\* The reduce with >= for >: a tie keeps the earlier key.
RECURSIVE ReduceKeepingFirst(_, _)
ReduceKeepingFirst(intentCounts, keys) ==
    IF Len(keys) = 1 THEN keys[1]
    ELSE LET a == ReduceKeepingFirst(intentCounts, SubSeq(keys, 1, Len(keys) - 1))
             b == keys[Len(keys)]
         IN IF Get(intentCounts, a) >= Get(intentCounts, b) THEN a ELSE b

DominantIntentKeepingFirst(intentCounts) ==
    ReduceKeepingFirst(intentCounts, ObjectKeys(intentCounts))

DominantIntent(intentCounts) == ReduceDominant(intentCounts, ObjectKeys(intentCounts))

PathIntentEntry(d, path) ==
    LET intentCounts == IntentCounts(d, path)
        totalForPath == Sum(ObjectValues(intentCounts))
        dominantIntent == DominantIntent(intentCounts)
    IN [path |-> path,
        total |-> totalForPath,
        dominantIntent |-> dominantIntent,
        dominantIntentCount |-> Get(intentCounts, dominantIntent),
        dominantIntentPercentage |->
            ToFixed(Get(intentCounts, dominantIntent) * 100, totalForPath, 1)]

processPathIntentData(d) ==
    LET validPaths == ValidPaths(d)
        pathIntentData == [i \in 1..Len(validPaths) |-> PathIntentEntry(d, validPaths[i])]
    IN StableSort(pathIntentData,
                  [i \in 1..Len(pathIntentData) |-> 0 - pathIntentData[i].total])

-----------------------------------------------------------------------------
(* 6. Follow-up Questions Analysis                                         *)

\* The flag taken by its truthiness.
IsTruthyFlag(flag) == ToBoolean(flag)

\* flag === true || flag === 'True'
IsFlagged(flag) == flag = JSTrue \/ flag = Str("True")

processFollowUpData(d) ==
    LET with(item) == IsFlagged(item.has_follow_up_questions)
        without(item) == ~IsFlagged(item.has_follow_up_questions)
    IN << [name |-> "With Follow-ups", value |-> Len(SelectSeq(d, with))],
          [name |-> "Without Follow-ups", value |-> Len(SelectSeq(d, without))] >>

\* The Follow-up Rate card.
FollowUpRate(followUpData) ==
    ToFixed(followUpData[1].value * 100,
            followUpData[1].value + followUpData[2].value, 1)

-----------------------------------------------------------------------------
(* 7. Difficulty Analysis                                                  *)

TypeCounts(d) ==
    LET typed(item) == ToBoolean(item.difficulty_type)
        kept == SelectSeq(d, typed)
        counts == CountLabels([i \in 1..Len(kept) |-> kept[i].difficulty_type])
        ks == ObjectKeys(counts)
    IN ByValueDescending([i \in 1..Len(ks) |-> [name |-> ks[i], value |-> Get(counts, ks[i])]])

\* The Set of the session_id values of the records flagged as difficult.
RECURSIVE SessionsWithDifficulties(_)
SessionsWithDifficulties(d) ==
    IF d = <<>> THEN <<>>
    ELSE LET acc == SessionsWithDifficulties(SubSeq(d, 1, Len(d) - 1))
             item == d[Len(d)]
         IN IF IsFlagged(item.has_difficulty) THEN SetAdd(acc, item.session_id) ELSE acc

processDifficultyData(d) ==
    LET sessionQuestions == GroupBySession(d)
        sessionsWithDifficulties == SessionsWithDifficulties(d)
        totalSessions == Len(ObjectKeys(sessionQuestions))
    IN [typeCounts |-> TypeCounts(d),
        sessionsWithDifficulties |-> Len(sessionsWithDifficulties),
        totalSessions |-> totalSessions,
        difficultyRate |-> ToFixed(Len(sessionsWithDifficulties) * 100, totalSessions, 1)]

-----------------------------------------------------------------------------
(* 8. Example Questions by Intent and Maturity                             *)

intents == << Str("problem_solving"), Str("knowledge_seeking"), Str("decision_making") >>

complexityLevels == << Str("beginner"), Str("intermediate"), Str("advanced") >>

NoExample == Str("No example available")

\* Math.random() returns one of the RandomResolution values r/RandomResolution.
RandomResolution == 5

\* The first so many valid questions are candidates.
ExampleWindow == 5

Min(a, b) == IF a < b THEN a ELSE b

\* q.question && q.question.length > 10
HasContent(q) ==
    ToBoolean(q.question) /\ q.question.t = "string" /\ Length(q.question) > 10

ValidQuestions(questions) == SelectSeq(questions, HasContent)

\* Math.floor(Math.random() * Math.min(validQuestions.length, 5))
RandomIndex(r, validQuestions) ==
    (r * Min(Len(validQuestions), ExampleWindow)) \div RandomResolution

\* validQuestions[randomIndex]?.question || 'No example available'
PickExample(validQuestions, randomIndex) ==
    IF randomIndex < Len(validQuestions)
    THEN validQuestions[randomIndex + 1].question
    ELSE NoExample

\* The values Math.floor(Math.random() * Math.min(n, 5)) can take.
RandomIndices(validQuestions) ==
    {RandomIndex(r, validQuestions) : r \in 0..(RandomResolution - 1)}

\* data.filter(item => item.user_intent === intent)
IntentQuestions(d, intent) ==
    LET matching(item) == item.user_intent = intent
    IN SelectSeq(d, matching)

\* data.filter(item => item.question_complexity === level)
ComplexityQuestions(d, level) ==
    LET matching(item) == item.question_complexity = level
    IN SelectSeq(d, matching)

\* One family of examples: category i gets an entry only if it has records
\* (found[i] is not empty), the valid question at index randomIndex[i].
RECURSIVE FillExamples(_, _, _)
FillExamples(categories, found, randomIndex) ==
    IF categories = <<>> THEN EmptyObject
    ELSE LET n == Len(categories)
             acc == FillExamples(SubSeq(categories, 1, n - 1), found, randomIndex)
         IN IF Len(found[n]) > 0
            THEN Put(acc, categories[n],
                     PickExample(ValidQuestions(found[n]), randomIndex[n]))
            ELSE acc

getExampleQuestions(d, intentIndex, levelIndex) ==
    [intents |->
        FillExamples(intents, [i \in 1..3 |-> IntentQuestions(d, intents[i])], intentIndex),
     complexity |->
        FillExamples(complexityLevels,
                     [i \in 1..3 |-> ComplexityQuestions(d, complexityLevels[i])],
                     levelIndex)]

-----------------------------------------------------------------------------
(* The component                                                           *)

\* The literal '0' the Percentage cell falls back to: no decimals, unlike
\* every toFixed(1) text.
ZeroText == [text |-> "number", scaled |-> 0, digits |-> 0]

\* learningPathData.find(p => p.name === path.path)?.percentage || '0'
PathPercentage(learningPathData, path) ==
    LET hits == {n \in 1..Len(learningPathData) : learningPathData[n].name = path}
    IN IF hits = {}
       THEN ZeroText
       ELSE learningPathData[CHOOSE n \in hits : \A m \in hits : n <= m].percentage

\* The rows of the Learning Path Analysis table, one per crosstab entry.
PathTableRows(learningPathData, pathIntentData) ==
    [n \in 1..Len(pathIntentData) |->
        [path |-> pathIntentData[n].path,
         total |-> pathIntentData[n].total,
         percentage |-> PathPercentage(learningPathData, pathIntentData[n].path),
         dominantIntent |-> pathIntentData[n].dominantIntent,
         dominantIntentPercentage |-> pathIntentData[n].dominantIntentPercentage]]

LoadingScreen == [screen |-> "loading"]

ErrorScreen == [screen |-> "error"]

\* The dashboard: every report is recomputed from data on each render.
DashboardScreen(d, intentIndex, levelIndex) ==
    [screen |-> "dashboard",
     totalQuestions |-> Len(d),
     sessionData |-> processSessionData(d),
     intentData |-> processIntentData(d),
     maturityData |-> processMaturityData(d),
     learningPathData |-> processLearningPathData(d),
     pathIntentData |-> processPathIntentData(d),
     pathTable |-> PathTableRows(processLearningPathData(d), processPathIntentData(d)),
     followUpData |-> processFollowUpData(d),
     followUpRate |-> FollowUpRate(processFollowUpData(d)),
     difficultyData |-> processDifficultyData(d),
     exampleQuestions |-> getExampleQuestions(d, intentIndex, levelIndex)]

\* Papa.parse calls `complete` with the parsed rows; a TypeError raised while
\* cleaning them lands in the catch block of fetchData.
Complete ==
    /\ loading
    /\ result.kind = "rows"
    /\ IF \E i \in 1..Len(result.rows) : CleanThrows(result.rows[i])
       THEN /\ error' = "Failed to load data"
            /\ data' = data
       ELSE /\ data' = cleanedData(result.rows)
            /\ error' = error
    /\ loading' = FALSE
    /\ dirty' = TRUE
    /\ UNCHANGED <<result, view>>

\* Papa.parse calls `error`.
ParseError ==
    /\ loading
    /\ result.kind = "parse_error"
    /\ error' = "parse error"
    /\ loading' = FALSE
    /\ dirty' = TRUE
    /\ UNCHANGED <<result, data, view>>

\* fetch or response.text() rejects.
FetchFailed ==
    /\ loading
    /\ result.kind = "fetch_error"
    /\ error' = "Failed to load data"
    /\ loading' = FALSE
    /\ dirty' = TRUE
    /\ UNCHANGED <<result, data, view>>

\* React renders the component again after its state changed.
Render ==
    /\ dirty
    /\ dirty' = FALSE
    /\ IF loading THEN view' = LoadingScreen
       ELSE IF error # "null" THEN view' = ErrorScreen
       ELSE \E i1 \in RandomIndices(ValidQuestions(IntentQuestions(data, intents[1]))),
               i2 \in RandomIndices(ValidQuestions(IntentQuestions(data, intents[2]))),
               i3 \in RandomIndices(ValidQuestions(IntentQuestions(data, intents[3]))),
               c1 \in RandomIndices(ValidQuestions(ComplexityQuestions(data, complexityLevels[1]))),
               c2 \in RandomIndices(ValidQuestions(ComplexityQuestions(data, complexityLevels[2]))),
               c3 \in RandomIndices(ValidQuestions(ComplexityQuestions(data, complexityLevels[3]))) :
                 view' = DashboardScreen(data, <<i1, i2, i3>>, <<c1, c2, c3>>)
    /\ UNCHANGED <<result, data, loading, error>>

Next == Complete \/ ParseError \/ FetchFailed \/ Render

-----------------------------------------------------------------------------
(* The parsed CSV files the model loads                                    *)

LongQuestion == Str("How do I register a business?")

BaseRow ==
    [session_id |-> Str("s1"),
     question |-> LongQuestion,
     user_intent |-> Str("greeting"),
     question_complexity |-> Str("other"),
     learning_path |-> Str("none"),
     has_follow_up_questions |-> JSFalse,
     has_difficulty |-> JSFalse,
     difficulty_type |-> Null]

\* The sequences over S of length at most n.
SeqsUpTo(S, n) == UNION {[1..m -> S] : m \in 0..n}

\* What the load can end in: the parsed rows, or one of the two failures.
Outcomes(rowSeqs) ==
    {[kind |-> "rows", rows |-> rows] : rows \in rowSeqs}
        \cup {[kind |-> "parse_error", rows |-> <<>>],
              [kind |-> "fetch_error", rows |-> <<>>]}

\* The state after the first render: the loading screen, the fetch started.
InitWith(rowSeqs) ==
    /\ result \in Outcomes(rowSeqs)
    /\ data = <<>>
    /\ loading = TRUE
    /\ error = "null"
    /\ dirty = FALSE
    /\ view = LoadingScreen

\* Rows that differ in has_follow_up_questions and difficulty_type.
MaxRows == 3

FlagValues ==
    {JSTrue, JSFalse, Str("True"), Str("true"), Str("TRUE"), Num(1), Null, Undefined}

FollowUpRows ==
    {[BaseRow EXCEPT !.has_follow_up_questions = f] : f \in FlagValues}
        \cup {[BaseRow EXCEPT !.difficulty_type = Str("unclear_answer"),
                              !.has_difficulty = JSTrue]}

Init == InitWith(SeqsUpTo(FollowUpRows, MaxRows))

Spec == Init /\ [][Next]_vars

\* Rows that differ in session_id: a string, a number, the literal text
\* 'null', and the null of an empty field.
MaxSessionRows == 6

SessionIds == {Str("s1"), Str("s2"), Num(7), Str("null"), Null}

SessionRows == {[BaseRow EXCEPT !.session_id = id] : id \in SessionIds}

InitSessions == InitWith(SeqsUpTo(SessionRows, MaxSessionRows))

SpecSessions == InitSessions /\ [][Next]_vars

\* Rows that differ in session_id and has_difficulty.
MaxDifficultyRows == 3

DifficultyRows ==
    {[BaseRow EXCEPT !.session_id = id, !.has_difficulty = f] :
        id \in {Str("s1"), Str("null"), Null},
        f \in {JSTrue, JSFalse, Str("True"), Str("true")}}

InitDifficulty == InitWith(SeqsUpTo(DifficultyRows, MaxDifficultyRows))

SpecDifficulty == InitDifficulty /\ [][Next]_vars

\* Rows that differ in user_intent: labels, a number, an empty field.
MaxIntentRows == 4

IntentValues == {Str("greeting"), Str("validation"), Str("unknown"), Num(3), Null}

IntentRows == {[BaseRow EXCEPT !.user_intent = v] : v \in IntentValues}

InitIntents == InitWith(SeqsUpTo(IntentRows, MaxIntentRows))

SpecIntents == InitIntents /\ [][Next]_vars

\* Rows that differ in learning_path: names, the sentinels, an empty field,
\* a padded name, white space only, and a number.
MaxPathRows == 4

PathValues ==
    {Str("A"), Str("B"), Str("none"), Str("null"), Null,
     Padded(1, "B", 0), Padded(2, "", 0), Num(5)}

PathRows == {[BaseRow EXCEPT !.learning_path = v] : v \in PathValues}

InitPaths == InitWith(SeqsUpTo(PathRows, MaxPathRows))

SpecPaths == InitPaths /\ [][Next]_vars

\* Rows that differ in learning_path and user_intent.
MaxCrosstabRows == 4

CrosstabRows ==
    {[BaseRow EXCEPT !.learning_path = p, !.user_intent = v] :
        p \in {Str("A"), Str("B")},
        v \in {Str("greeting"), Str("validation"), Num(3)}}
        \cup {[BaseRow EXCEPT !.learning_path = Str("none")]}

InitCrosstab == InitWith(SeqsUpTo(CrosstabRows, MaxCrosstabRows))

SpecCrosstab == InitCrosstab /\ [][Next]_vars

\* Rows that differ in question, user_intent and question_complexity.
MaxExampleRows == 6

OtherQuestion == Str("Which loan should I take?")

ExampleRows ==
    {[BaseRow EXCEPT !.user_intent = Str("problem_solving"),
                     !.question_complexity = Str("beginner")],
     [BaseRow EXCEPT !.user_intent = Str("problem_solving"),
                     !.question_complexity = Str("beginner"),
                     !.question = OtherQuestion],
     [BaseRow EXCEPT !.user_intent = Str("problem_solving"),
                     !.question_complexity = Str("intermediate"),
                     !.question = Str("Hi")],
     [BaseRow EXCEPT !.user_intent = Str("knowledge_seeking"),
                     !.question = Null]}

InitExamples == InitWith(SeqsUpTo(ExampleRows, MaxExampleRows))

SpecExamples == InitExamples /\ [][Next]_vars

-----------------------------------------------------------------------------
(* Properties                                                              *)

\* The dashboard is on screen, computed from data.
Dashboard == view.screen = "dashboard"

\* A formatted number as opposed to an absent value.
NumberLike(shown) == shown.text \in {"number", "NaN", "Infinity"}

\* The key under which a record's intent is counted.
IntentKey(item) == ToPropertyKey(OrUnknown(item.user_intent))

\* The number of records of data on `path` whose intent key is k.
CountOnPath(path, k) ==
    Cardinality({i \in 1..Len(data) :
                    TrimmedPathOrNone(data[i]) = path /\ IntentKey(data[i]) = k})

\* The intent keys of a path in the enumeration order of its mapping.
PathKeys(path) == ObjectKeys(IntentCounts(data, path))

\* The positions in PathKeys(path) of the intents with the maximum count.
BestPositions(path) ==
    LET ks == PathKeys(path)
    IN {i \in 1..Len(ks) :
           \A j \in 1..Len(ks) : CountOnPath(path, ks[j]) <= CountOnPath(path, ks[i])}

C2_EmptyMedianAbsent ==
    (Dashboard /\ Len(data) = 0) =>
        /\ view.sessionData.sessionsCount = 0
        /\ ~NumberLike(view.sessionData.medianQuestionsPerSession)

\* The entry of `examples` for `category` is a question of one of the first
\* min(5, n) valid records, or the fallback when there is none.
ExampleIsRight(examples, category, questions) ==
    LET valid == ValidQuestions(questions)
    IN /\ Has(examples, category)
       /\ IF Len(valid) >= 1
          THEN \E i \in 1..Min(ExampleWindow, Len(valid)) :
                   Get(examples, category) = valid[i].question
          ELSE Get(examples, category) = NoExample

\* C3: each of the six categories has an entry, the question of one of the
\* first min(5, n) valid records of the category or, when n = 0 (also when
\* the category has no record at all), the fallback string.
C3_EveryCategoryHasExample ==
    Dashboard =>
        \A i \in 1..3 :
            /\ ExampleIsRight(view.exampleQuestions.intents, intents[i],
                              IntentQuestions(data, intents[i]))
            /\ ExampleIsRight(view.exampleQuestions.complexity, complexityLevels[i],
                              ComplexityQuestions(data, complexityLevels[i]))

\* The key of the session group of a record.
SessionKey(item) == ToPropertyKey(item.session_id)

SessionKeys == {SessionKey(data[i]) : i \in 1..Len(data)}

\* The number of records of data in the session group of key k.
SessionSize(k) == Cardinality({i \in 1..Len(data) : SessionKey(data[i]) = k})

KthSmallestSize(k) ==
    CHOOSE v \in 1..Len(data) :
        /\ Cardinality({s \in SessionKeys : SessionSize(s) < v}) < k
        /\ Cardinality({s \in SessionKeys : SessionSize(s) <= v}) >= k

PathRecords ==
    {i \in 1..Len(data) :
        /\ ToBoolean(data[i].learning_path)
        /\ data[i].learning_path \notin {Str("none"), Str("null")}}

Abs(x) == IF x < 0 THEN -x ELSE x

C7_DifficultSessionsOverSessions ==
    Dashboard =>
        LET dd == view.difficultyData
            flagged == {i \in 1..Len(data) : data[i].has_difficulty \in {JSTrue, Str("True")}}
        IN /\ \/ /\ dd.sessionsWithDifficulties =
                        Cardinality({SessionKey(data[i]) : i \in flagged})
                 /\ dd.totalSessions = Cardinality(SessionKeys)
              \/ /\ dd.sessionsWithDifficulties =
                        Cardinality({data[i].session_id : i \in flagged})
                 /\ dd.totalSessions =
                        Cardinality({data[i].session_id : i \in 1..Len(data)})
           /\ dd.difficultyRate = ToFixed(dd.sessionsWithDifficulties * 100, dd.totalSessions, 1)

\* C8: a record counts as 'With Follow-ups' exactly when its flag is true
\* or 'True', and as 'Without Follow-ups' otherwise; the two counts sum to
\* data.length.
C8_FollowUpBuckets ==
    Dashboard =>
        LET with == {i \in 1..Len(data) :
                        data[i].has_follow_up_questions \in {JSTrue, Str("True")}}
        IN /\ Len(view.followUpData) = 2
           /\ view.followUpData[1].name = "With Follow-ups"
           /\ view.followUpData[1].value = Cardinality(with)
           /\ view.followUpData[2].name = "Without Follow-ups"
           /\ view.followUpData[2].value = Len(data) - Cardinality(with)

\* Flags true, 'True' and one of 'true', 'TRUE', 1: two of three follow up.
C8_LookAlikeFlagsWitness ==
    /\ Dashboard
    /\ Len(data) = 3
    /\ view.followUpData[1].value = 2
    /\ view.followUpRate.scaled = 667
    /\ \E i \in 1..3 :
          data[i].has_follow_up_questions \in {Str("true"), Str("TRUE"), Num(1)}

\* C9: with zero records every count-based report is empty or zero, and the
\* follow-up rate and the difficulty rate, whose denominators are zero, are
\* absent values, not formatted numbers.
C9_EmptyRatesAbsent ==
    (Dashboard /\ Len(data) = 0) =>
        /\ view.sessionData.sessionsCount = 0
        /\ view.intentData = <<>>
        /\ view.maturityData = <<>>
        /\ view.learningPathData = <<>>
        /\ view.pathIntentData = <<>>
        /\ view.followUpData[1].value = 0 /\ view.followUpData[2].value = 0
        /\ view.difficultyData.typeCounts = <<>>
        /\ view.difficultyData.totalSessions = 0
        /\ ~NumberLike(view.followUpRate)
        /\ ~NumberLike(view.difficultyData.difficultyRate)

\* The first record of data whose intent key is k.
FirstOccurrence(k) == CHOOSE i \in 1..Len(data) :
    IntentKey(data[i]) = k /\ \A j \in 1..(i - 1) : IntentKey(data[j]) # k

\* One entry per intent key of data, with its number of records, in
\* non-increasing order of value.
IntentEntriesCountAndOrder ==
    LET entries == view.intentData
    IN /\ \A i \in 1..Len(data) :
             Cardinality({n \in 1..Len(entries) : entries[n].name = IntentKey(data[i])}) = 1
       /\ \A n \in 1..Len(entries) :
             entries[n].value =
                 Cardinality({i \in 1..Len(data) : IntentKey(data[i]) = entries[n].name})
       /\ \A n \in 1..Len(entries) : entries[n].value >= 1
       /\ Sum([n \in 1..Len(entries) |-> entries[n].value]) = Len(data)
       /\ \A n \in 1..(Len(entries) - 1) : entries[n].value >= entries[n + 1].value

EnumeratedBefore(a, b) ==
    IF IsIndexKey(a)
    THEN IsIndexKey(b) => ParseInt(a) < ParseInt(b)
    ELSE ~IsIndexKey(b) /\ FirstOccurrence(a) < FirstOccurrence(b)

BlankPathRows ==
    {i \in 1..Len(result.rows) :
        /\ result.rows[i].learning_path.t = "string"
        /\ Trim(result.rows[i].learning_path) = Str("")}

\* The path names of the two reports.
DistributionNames ==
    {view.learningPathData[n].name : n \in 1..Len(view.learningPathData)}

CrosstabPaths == {view.pathIntentData[n].path : n \in 1..Len(view.pathIntentData)}

C12_DifficultSessionsAtMostSessions ==
    Dashboard =>
        LET dd == view.difficultyData
        IN /\ dd.sessionsWithDifficulties <= dd.totalSessions
           /\ dd.difficultyRate.text = "number" => dd.difficultyRate.scaled <= 1000

\* The entry of the learning path distribution named path.
DistributionEntry(path) ==
    view.learningPathData[CHOOSE n \in 1..Len(view.learningPathData) :
                              view.learningPathData[n].name = path]

=============================================================================
